---------------------------- MODULE Spec2Model ----------------------------
(***************************************************************************)
(* Prompt template engine: the template store (app/database.py), the       *)
(* template operations layer and the placeholder engine                    *)
(* (app/services/template_service.py) and the status mapping of the JSON   *)
(* API (app/routes/api.py).                                                *)
(*                                                                         *)
(* Texts, variable names and values are sequences of one-character         *)
(* strings.  Template names, descriptions and categories are only compared *)
(* for equality by the code modelled here and are TLA+ strings.            *)
(***************************************************************************)
EXTENDS Integers, Sequences, FiniteSets, TLC

(***************************************************************************)
(* Optional values: Python's None / SQL NULL against a present value.      *)
(***************************************************************************)
None == [some |-> FALSE]
Some(x) == [some |-> TRUE, val |-> x]

(***************************************************************************)
(* Characters.                                                             *)
(***************************************************************************)
Digits == {"0", "1", "2", "3", "4", "5", "6", "7", "8", "9"}
Letters ==
    {"A", "B", "C", "D", "E", "F", "G", "H", "I", "J", "K", "L", "M",
     "N", "O", "P", "Q", "R", "S", "T", "U", "V", "W", "X", "Y", "Z",
     "a", "b", "c", "d", "e", "f", "g", "h", "i", "j", "k", "l", "m",
     "n", "o", "p", "q", "r", "s", "t", "u", "v", "w", "x", "y", "z"}

\* \s of the patterns, restricted to ASCII white space
Spaces == {" ", "\t", "\n", "\r", "\f"}
IsSpace(c) == c \in Spaces
\* [a-zA-Z_]
IdentStarts == Letters \cup {"_"}
\* a first character class that takes digits too
IsLetterOrDigit(c) == c \in Letters \cup Digits \cup {"_"}
IsIdentStart(c) == c \in IdentStarts
\* [a-zA-Z0-9_]
IdentChars == Letters \cup Digits \cup {"_"}
IsIdentChar(c) == c \in IdentChars

\* the identifier characters in code point order (the order sorted() uses)
IdentOrder ==
    <<"0", "1", "2", "3", "4", "5", "6", "7", "8", "9",
      "A", "B", "C", "D", "E", "F", "G", "H", "I", "J", "K", "L", "M",
      "N", "O", "P", "Q", "R", "S", "T", "U", "V", "W", "X", "Y", "Z",
      "_",
      "a", "b", "c", "d", "e", "f", "g", "h", "i", "j", "k", "l", "m",
      "n", "o", "p", "q", "r", "s", "t", "u", "v", "w", "x", "y", "z">>
CodeRank(c) == CHOOSE i \in 1..Len(IdentOrder) : IdentOrder[i] = c

\* s < t in Python's string order, for identifiers
RECURSIVE StrLess(_, _)
StrLess(s, t) ==
    IF t = <<>> THEN FALSE
    ELSE IF s = <<>> THEN TRUE
    ELSE IF Head(s) = Head(t) THEN StrLess(Tail(s), Tail(t))
    ELSE CodeRank(Head(s)) < CodeRank(Head(t))

\* sorted(list(S)) for a set S of identifiers
RECURSIVE SortedList(_)
SortedList(S) ==
    IF S = {} THEN <<>>
    ELSE LET m == CHOOSE x \in S : \A y \in S \ {x} : StrLess(x, y)
         IN <<m>> \o SortedList(S \ {m})

\* set(xs) for a list xs
ToSet(xs) == {xs[i] : i \in 1..Len(xs)}

\* _extract_variables_from_text: re.findall with the pattern
\*     <%=\s*([a-zA-Z_][a-zA-Z0-9_]*)\s*%>
\* then sorted(list(set(matches))).

\* first index >= i of t that holds no white space (Len(t)+1 if none)
RECURSIVE SkipSpaces(_, _)
SkipSpaces(t, i) ==
    IF i <= Len(t) /\ IsSpace(t[i]) THEN SkipSpaces(t, i + 1) ELSE i

\* first index >= i of t that holds no identifier character
RECURSIVE SkipIdent(_, _)
SkipIdent(t, i) ==
    IF i <= Len(t) /\ IsIdentChar(t[i]) THEN SkipIdent(t, i + 1) ELSE i

NoMatch == [ok |-> FALSE]

\* the match of the extraction pattern that starts at index i of t, if any:
\* the captured identifier and the index after the match.  White space and
\* identifier characters are disjoint and neither holds "%", so the greedy
\* repetitions never give characters back.
PlaceholderAt(t, i) ==
    IF i + 2 <= Len(t) /\ t[i] = "<" /\ t[i + 1] = "%" /\ t[i + 2] = "="
    THEN LET j == SkipSpaces(t, i + 3)
         IN IF j <= Len(t) /\ IsIdentStart(t[j])
            THEN LET k == SkipIdent(t, j + 1)
                     m == SkipSpaces(t, k)
                 IN IF m + 1 <= Len(t) /\ t[m] = "%" /\ t[m + 1] = ">"
                    THEN [ok |-> TRUE, name |-> SubSeq(t, j, k - 1),
                          next |-> m + 2]
                    ELSE NoMatch
            ELSE NoMatch
    ELSE NoMatch

\* re.findall: the captured names of the non-overlapping matches, left to right
RECURSIVE FindAll(_, _)
FindAll(t, i) ==
    IF i > Len(t) THEN <<>>
    ELSE LET m == PlaceholderAt(t, i)
         IN IF m.ok THEN <<m.name>> \o FindAll(t, m.next)
            ELSE FindAll(t, i + 1)

extract_variables(text) == SortedList(ToSet(FindAll(text, 1)))


\* _fill_template_variables.  A key is pasted into the two patterns
\*     <%=\s*KEY\s*%>     and     <%\s*=\s*KEY\s*%>
\* as pattern text, and str(value) is handed to re.sub as a replacement
\* template.  A compiled pattern is a sequence of elements: a literal
\* character, "." (any character but a newline) or \s* (greedy).
Lit(c) == [k |-> "lit", c |-> c]
AnyChar == [k |-> "any"]
SpaceStar == [k |-> "sp*"]

\* Characters of a key that the pattern compiler does not read as themselves.
\* The model reads "." (wildcard) and "(" (an unclosed group: re.error); keys
\* are drawn from strings without the other special characters.
KeyElement(c) == IF c = "." THEN AnyChar ELSE Lit(c)
KeyCompiles(key) == \A i \in 1..Len(key) : key[i] # "("
KeyElements(key) == [i \in 1..Len(key) |-> KeyElement(key[i])]

\* f"<%=\\s*{var_name}\\s*%>"
Pattern1(key) ==
    <<Lit("<"), Lit("%"), Lit("="), SpaceStar>> \o KeyElements(key)
        \o <<SpaceStar, Lit("%"), Lit(">")>>
\* f"<%\\s*=\\s*{var_name}\\s*%>"
Pattern2(key) ==
    <<Lit("<"), Lit("%"), SpaceStar, Lit("="), SpaceStar>> \o KeyElements(key)
        \o <<SpaceStar, Lit("%"), Lit(">")>>

\* The backtracking matcher: the index after the match of pat[p..] at index i
\* of t, or 0 when there is none.  \s* tries the longest run first.
RECURSIVE MatchFrom(_, _, _, _)
RECURSIVE StarTry(_, _, _, _, _)
MatchFrom(pat, p, t, i) ==
    IF p > Len(pat) THEN i
    ELSE LET e == pat[p]
         IN CASE e.k = "lit" ->
                   IF i <= Len(t) /\ t[i] = e.c
                   THEN MatchFrom(pat, p + 1, t, i + 1) ELSE 0
              [] e.k = "any" ->
                   IF i <= Len(t) /\ t[i] # "\n"
                   THEN MatchFrom(pat, p + 1, t, i + 1) ELSE 0
              [] e.k = "sp*" ->
                   StarTry(pat, p, t, i, SkipSpaces(t, i) - i)
StarTry(pat, p, t, i, n) ==
    LET r == MatchFrom(pat, p + 1, t, i + n)
    IN IF r # 0 THEN r
       ELSE IF n = 0 THEN 0
       ELSE StarTry(pat, p, t, i, n - 1)

\* re.sub(pattern, repl, t) for an expanded replacement repl: every
\* non-overlapping match, left to right, replaced by repl
RECURSIVE SubFrom(_, _, _, _)
SubFrom(pat, repl, t, i) ==
    IF i > Len(t) THEN <<>>
    ELSE LET e == MatchFrom(pat, 1, t, i)
         IN IF e # 0 THEN repl \o SubFrom(pat, repl, t, e)
            ELSE <<t[i]>> \o SubFrom(pat, repl, t, i + 1)

\* The replacement template of re.sub: a backslash escapes the next
\* character.  \\ is a backslash, \n \t \r \f the control characters, a
\* backslash before a digit is a group reference (the patterns have no
\* group: re.error), before another ASCII letter a bad escape (re.error), at
\* the end of the value a bad escape, and before any other character both
\* characters stay.  Values are drawn from strings without \a \b \v \g \0.
Escapes == [c \in {"n", "t", "r", "f", "\\"} |->
              CASE c = "n" -> "\n" [] c = "t" -> "\t" [] c = "r" -> "\r"
                [] c = "f" -> "\f" [] c = "\\" -> "\\"]
TemplateError == [err |-> TRUE]
RECURSIVE ExpandTemplate(_)
ExpandTemplate(v) ==
    IF v = <<>> THEN [err |-> FALSE, text |-> <<>>]
    ELSE IF Head(v) # "\\"
    THEN LET r == ExpandTemplate(Tail(v))
         IN IF r.err THEN r ELSE [err |-> FALSE, text |-> <<Head(v)>> \o r.text]
    ELSE IF Len(v) = 1 THEN TemplateError
    ELSE LET c == v[2]
             r == ExpandTemplate(SubSeq(v, 3, Len(v)))
         IN IF c \in DOMAIN Escapes
            THEN IF r.err THEN r
                 ELSE [err |-> FALSE, text |-> <<Escapes[c]>> \o r.text]
            ELSE IF c \in Digits \cup Letters THEN TemplateError
            ELSE IF r.err THEN r
                 ELSE [err |-> FALSE, text |-> <<"\\", c>> \o r.text]

\* one step of the loop over variables.items(): both patterns, in turn
FillOne(text, key, value) ==
    LET repl == ExpandTemplate(value)
    IN IF ~KeyCompiles(key) \/ repl.err THEN [err |-> TRUE]
       ELSE [err |-> FALSE,
             text |-> SubFrom(Pattern2(key), repl.text,
                              SubFrom(Pattern1(key), repl.text, text, 1), 1)]

\* values is the dict in insertion order: a sequence of <<key, value>> pairs
\* with distinct keys.  The result is the filled text, or the re.error that
\* ends the loop.
RECURSIVE FillFrom(_, _, _)
FillFrom(text, values, n) ==
    IF n > Len(values) THEN [err |-> FALSE, text |-> text]
    ELSE LET r == FillOne(text, values[n][1], values[n][2])
         IN IF r.err THEN r ELSE FillFrom(r.text, values, n + 1)

fill(template_text, values) == FillFrom(template_text, values, 1)

\* variable_values.keys()
Keys(values) == {values[i][1] : i \in 1..Len(values)}

\* preview_template.  The variables of the text that have no value get a
\* stand-in; they are added to the dict in the order in which Python iterates
\* over the set missing_variables, here the sequence order.
\* a stand-in without the brackets
StandInBare(var) == var
\* f"[{var}]"
StandIn(var) == <<"[">> \o var \o <<"]">>
PreviewMissing(template_text, values) ==
    ToSet(extract_variables(template_text)) \ Keys(values)
\* the orderings of a set
Orders(S) == {o \in [1..Cardinality(S) -> S] : ToSet(o) = S}
preview_template(template_text, values, order) ==
    fill(template_text,
         values \o [i \in 1..Len(order) |-> <<order[i], StandIn(order[i])>>])


(***************************************************************************)
(* The template store.  db is the committed SQLite database: the rows of   *)
(* templates (by id), the rows of template_usage (by id, each holding its  *)
(* template_id) and the AUTOINCREMENT counters of sqlite_sequence.  tx is  *)
(* the database as the connection holding the open write transaction sees  *)
(* it (None when no write transaction is open); other connections read db. *)
(* procs holds each request handler's position, arguments, locals and      *)
(* outcome.  now is the clock CURRENT_TIMESTAMP reads, in whole seconds    *)
(* since the store was set up.                                             *)
(***************************************************************************)
VARIABLES db, tx, procs, now
vars == <<db, tx, procs, now>>

\* ---- bounds of the model ----
\* templates ever inserted
MaxTemplates == 2
\* usage rows ever inserted
MaxUsage == 1
\* seconds the clock runs for
MaxTime == 1
\* usage rows ever inserted while requests are in flight together
MaxConcUsage == 2

\* ---- inputs ----
Open == <<"<", "%", "=">>
Close == <<"%", ">">>
VarA == <<"a">>
VarB == <<"b">>
\* "<%= a %>"
TextA == Open \o <<" ", "a", " ">> \o Close
\* "<%=b%><%=a%>"
TextBA == Open \o VarB \o Close \o Open \o VarA \o Close
Texts == {TextA, TextBA}
DeclaredLists == {<<VarB, VarA>>}
Names == {"n1", "n2"}
Descriptions == {"d"}
\* no request of these specifications sets a category
Categories == {}
OptionOf(S) == {None} \cup {Some(x) : x \in S}
\* the dicts given to use, as sequences of <<key, value>> pairs
ValueMaps ==
    { <<>>,
      << <<VarA, <<"X">>>> >>,
      << <<VarB, Open \o VarA \o Close>>, <<VarA, <<"X">>>> >> }
\* ids a request may name (an id is absent before its insert and after its
\* delete)
Ids == 1..MaxTemplates
Procs == {"h1", "h2"}
\* the handler of the one-request-at-a-time specification
MainProc == "h1"

\* ---- rows ----
\* SQLite's CURRENT_TIMESTAMP, to the second
CURRENT_TIMESTAMP == now

\* a row as INSERT makes it: the columns given and the DEFAULTs of the schema
Row(name, description, text, variables, category) ==
    [name |-> name, description |-> description, text |-> text,
     variables |-> variables, category |-> category,
     created_at |-> CURRENT_TIMESTAMP, updated_at |-> CURRENT_TIMESTAMP,
     usage_count |-> 0]

\* dict(row) of SELECT * FROM templates
WithId(id, row) ==
    [id |-> id, name |-> row.name, description |-> row.description,
     text |-> row.text, variables |-> row.variables,
     category |-> row.category, created_at |-> row.created_at,
     updated_at |-> row.updated_at, usage_count |-> row.usage_count]

EmptyDb ==
    [templates |-> <<>>, usage |-> <<>>, seq_templates |-> 0, seq_usage |-> 0]

\* ---- DatabaseManager ----
\* SELECT * FROM templates WHERE id = ?
DbGetTemplate(d, id) ==
    IF id \in DOMAIN d.templates THEN Some(WithId(id, d.templates[id])) ELSE None

\* SELECT * FROM templates WHERE name = ?  (name is UNIQUE: at most one row)
DbGetTemplateByName(d, name) ==
    IF \E i \in DOMAIN d.templates : d.templates[i].name = name
    THEN LET i == CHOOSE i \in DOMAIN d.templates : d.templates[i].name = name
         IN Some(WithId(i, d.templates[i]))
    ELSE None

\* a templates table whose name column is not UNIQUE
UniqueNotEnforced(d, id, name) == FALSE
\* name TEXT UNIQUE: would giving row `id` the name `name` break the constraint
UniqueViolated(d, id, name) ==
    \E i \in DOMAIN d.templates : i # id /\ d.templates[i].name = name

\* an INSERT into a table without AUTOINCREMENT: the id is one more than the
\* largest id in the table
DbCreateTemplateRowid(d, name, description, text, variables, category) ==
    IF UniqueViolated(d, 0, name)
    THEN [err |-> TRUE, db |-> d]
    ELSE LET id == IF DOMAIN d.templates = {} THEN 1
                   ELSE 1 + CHOOSE m \in DOMAIN d.templates :
                                \A j \in DOMAIN d.templates : j <= m
         IN [err |-> FALSE, id |-> id,
             db |-> [d EXCEPT
                       !.templates = (id :> Row(name, description, text,
                                               variables, category)) @@ @,
                       !.seq_templates = id]]

\* INSERT INTO templates (...) VALUES (...); commit; cursor.lastrowid
DbCreateTemplate(d, name, description, text, variables, category) ==
    IF UniqueViolated(d, 0, name)
    THEN [err |-> TRUE, db |-> d]
    ELSE LET id == d.seq_templates + 1
         IN [err |-> FALSE, id |-> id,
             db |-> [d EXCEPT
                       !.templates = (id :> Row(name, description, text,
                                               variables, category)) @@ @,
                       !.seq_templates = id]]

\* an UPDATE that sets all five columns, NULL where no value is given
PatchedWhole(row, name, description, text, variables, category) ==
    [name |-> IF name.some THEN name.val ELSE row.name,
     description |-> description,
     text |-> IF text.some THEN text.val ELSE row.text,
     variables |-> IF variables.some THEN variables.val ELSE row.variables,
     category |-> category,
     created_at |-> row.created_at, updated_at |-> CURRENT_TIMESTAMP,
     usage_count |-> row.usage_count]
\* an UPDATE without the SET clause of the variables
PatchedTextOnly(row, name, description, text, variables, category) ==
    [name |-> IF name.some THEN name.val ELSE row.name,
     description |-> IF description.some THEN description ELSE row.description,
     text |-> IF text.some THEN text.val ELSE row.text,
     variables |-> row.variables,
     category |-> IF category.some THEN category ELSE row.category,
     created_at |-> row.created_at, updated_at |-> CURRENT_TIMESTAMP,
     usage_count |-> row.usage_count]
\* the row after the SET clauses of the dynamic UPDATE: a field is set when
\* its argument is not None, and updated_at always
Patched(row, name, description, text, variables, category) ==
    [name |-> IF name.some THEN name.val ELSE row.name,
     description |-> IF description.some THEN description ELSE row.description,
     text |-> IF text.some THEN text.val ELSE row.text,
     variables |-> IF variables.some THEN variables.val ELSE row.variables,
     category |-> IF category.some THEN category ELSE row.category,
     created_at |-> row.created_at, updated_at |-> CURRENT_TIMESTAMP,
     usage_count |-> row.usage_count]

\* DatabaseManager.update_template: "false" without a SET clause, else the
\* UPDATE and whether it changed a row; "integrity" is sqlite3.IntegrityError
DbUpdateTemplate(d, id, name, description, text, variables, category) ==
    IF ~(name.some \/ description.some \/ text.some \/ variables.some
         \/ category.some)
    THEN [out |-> "false", db |-> d]
    ELSE IF id \notin DOMAIN d.templates THEN [out |-> "false", db |-> d]
    ELSE IF name.some /\ UniqueViolated(d, id, name.val)
    THEN [out |-> "integrity", db |-> d]
    ELSE [out |-> "true",
          db |-> [d EXCEPT !.templates[id] =
                     Patched(@, name, description, text, variables, category)]]

\* DELETE FROM template_usage WHERE id = ?  (the wrong column)
DbDeleteUsageById(d, id) ==
    [d EXCEPT !.usage = [u \in DOMAIN d.usage \ {id} |-> d.usage[u]]]
\* DELETE FROM template_usage WHERE template_id = ?
DbDeleteUsage(d, id) ==
    [d EXCEPT !.usage =
        [u \in {v \in DOMAIN d.usage : d.usage[v] # id} |-> d.usage[u]]]

\* DELETE FROM templates WHERE id = ?
DbDeleteRow(d, id) ==
    [d EXCEPT !.templates =
        [i \in DOMAIN d.templates \ {id} |-> d.templates[i]]]

\* UPDATE templates SET usage_count = usage_count + 1  (no WHERE clause)
DbIncrementAll(d, id) ==
    [d EXCEPT !.templates =
        [i \in DOMAIN d.templates |->
            [d.templates[i] EXCEPT !.usage_count = @ + 1]]]
\* UPDATE templates SET usage_count = usage_count + 1 WHERE id = ?
DbIncrement(d, id) ==
    IF id \in DOMAIN d.templates
    THEN [d EXCEPT !.templates[id].usage_count = @ + 1]
    ELSE d

\* the usage is counted and not logged
DbInsertUsageSkipped(d, id) == d
\* INSERT INTO template_usage (template_id) VALUES (?)
\* (the FOREIGN KEY is declared; the connection never turns enforcement on)
DbInsertUsage(d, id) ==
    LET u == d.seq_usage + 1
    IN [d EXCEPT !.usage = (u :> id) @@ @, !.seq_usage = u]

\* ---- DatabaseManager.search_templates ----
\* the characters of the names and descriptions the requests use
Spelling(s) ==
    CASE s = "" -> <<>>
      [] s = "n1" -> <<"n", "1">>
      [] s = "n2" -> <<"n", "2">>
      [] s = "d" -> <<"d">>
      [] s = "not found" -> <<"n", "o", "t", " ", "f", "o", "u", "n", "d">>
\* LIKE compares the ASCII letters without regard to case
Lower(c) ==
    IF c \in Letters /\ CodeRank(c) < CodeRank("_")
    THEN IdentOrder[CodeRank(c) + 27] ELSE c
\* s[i..] LIKE pat[p..]: "%" is any run of characters, "_" any one character
RECURSIVE LikeFrom(_, _, _, _)
LikeFrom(pat, p, s, i) ==
    IF p > Len(pat) THEN i > Len(s)
    ELSE IF pat[p] = "%"
    THEN \E k \in i..(Len(s) + 1) : LikeFrom(pat, p + 1, s, k)
    ELSE /\ i <= Len(s)
         /\ pat[p] = "_" \/ Lower(pat[p]) = Lower(s[i])
         /\ LikeFrom(pat, p + 1, s, i + 1)
\* f"%{query}%"
LikePattern(query) == <<"%">> \o query \o <<"%">>
\* WHERE name LIKE ? OR description LIKE ?  (NULL LIKE ? is not true)
SearchMatches(row, query) ==
    \/ LikeFrom(LikePattern(query), 1, Spelling(row.name), 1)
    \/ /\ row.description.some
       /\ LikeFrom(LikePattern(query), 1, Spelling(row.description.val), 1)
\* ORDER BY created_at DESC, read off idx_templates_created_at backwards: rows
\* of one created_at come in descending rowid order
RECURSIVE NewestFirst(_, _)
NewestFirst(d, ids) ==
    IF ids = {} THEN <<>>
    ELSE LET i == CHOOSE i \in ids : \A j \in ids \ {i} :
                     \/ d.templates[j].created_at < d.templates[i].created_at
                     \/ /\ d.templates[j].created_at = d.templates[i].created_at
                        /\ j < i
         IN <<i>> \o NewestFirst(d, ids \ {i})
\* the ids of the rows returned, in their order
DbSearchTemplates(d, query) ==
    NewestFirst(d, {i \in DOMAIN d.templates :
                       SearchMatches(d.templates[i], query)})

\* SELECT SUM(usage_count) FROM templates: NULL when there is no row
RECURSIVE SumOver(_, _)
SumOver(d, ids) ==
    IF ids = {} THEN 0
    ELSE LET i == CHOOSE i \in ids : TRUE
         IN d.templates[i].usage_count + SumOver(d, ids \ {i})
SumUsage(d) ==
    IF DOMAIN d.templates = {} THEN None ELSE Some(SumOver(d, DOMAIN d.templates))
\* NULL read as a total of -1
OrMinusOne(x) == IF x.some THEN x.val ELSE 0 - 1
\* (await cursor.fetchone())[0] or 0
OrZero(x) == IF x.some THEN x.val ELSE 0

\* the last of the rows that share the highest usage_count
LastOfMostUsed(d) ==
    LET ids == DOMAIN d.templates
        top == {i \in ids : \A j \in ids :
                   d.templates[j].usage_count <= d.templates[i].usage_count}
    IN IF ids = {} THEN None
       ELSE Some(CHOOSE i \in top : \A j \in top : j <= i)
\* SELECT name, usage_count FROM templates ORDER BY usage_count DESC LIMIT 1:
\* the id of the row fetched (None when there is no row).  The rows are read in
\* rowid order into SQLite's sorter, which keeps rows of equal usage_count in
\* the order it read them.
MostUsed(d) ==
    LET ids == DOMAIN d.templates
        top == {i \in ids : \A j \in ids :
                   d.templates[j].usage_count <= d.templates[i].usage_count}
    IN IF ids = {} THEN None
       ELSE Some(CHOOSE i \in top : \A j \in top : i <= j)

\* SELECT COUNT(DISTINCT category) FROM templates WHERE category IS NOT NULL
CountCategories(d) ==
    Cardinality({d.templates[i].category.val :
                    i \in {j \in DOMAIN d.templates : d.templates[j].category.some}})

\* DatabaseManager.get_stats
DbGetStats(d) ==
    LET most_used == MostUsed(d)
    IN [total_templates |-> Cardinality(DOMAIN d.templates),
        total_usage |-> OrZero(SumUsage(d)),
        most_used_template |->
            [name |-> IF most_used.some
                      THEN Some(d.templates[most_used.val].name) ELSE None,
             usage_count |-> IF most_used.some
                             THEN d.templates[most_used.val].usage_count ELSE 0],
        categories_count |-> CountCategories(d)]


\* ---- exceptions and outcomes ----
ValueError(msg) == [type |-> "ValueError", msg |-> msg]
\* a plain Exception, sqlite3.IntegrityError and re.error are no ValueError
OtherError(type, msg) == [type |-> type, msg |-> msg]
NotFound(id) == ValueError([tag |-> "not found", id |-> id])
AlreadyExists(name) == ValueError([tag |-> "already exists", name |-> name])
MissingValues(names) == ValueError([tag |-> "missing values", names |-> names])
\* sqlite3.IntegrityError: UNIQUE constraint failed: templates.name
IntegrityError == OtherError("IntegrityError", [tag |-> "unique constraint"])
ReError == OtherError("re.error", [tag |-> "pattern"])
\* the exception passed on as it is
Reraised(e) == e
\* raise Exception(f"Failed to create template: {str(e)}")
CreateFailed(e) ==
    OtherError("Exception", [tag |-> "failed to create", inner |-> e.msg])
UpdateFailed == OtherError("Exception", [tag |-> "failed to update"])

Ok(v) == [ok |-> TRUE, value |-> v]
Raise(e) == [ok |-> FALSE, error |-> e]

\* ---- a handler's state ----
NoArg == [none |-> TRUE]
Idle == [pc |-> "idle", op |-> "none", arg |-> NoArg, loc |-> NoArg,
         res |-> NoArg]
Call(op, pc, arg) == [pc |-> pc, op |-> op, arg |-> arg, loc |-> NoArg,
                      res |-> NoArg]
\* the handler returns or raises: its locals are gone
Finish(ps, res) == [ps EXCEPT !.pc = "done", !.loc = NoArg, !.res = res]
Goto(ps, pc, loc) == [ps EXCEPT !.pc = pc, !.loc = loc]

\* the effect of a step: the database, the open transaction, the handler
Effect(d, t, ps) == [db |-> d, tx |-> t, ps |-> ps]

\* ---- connections ----
\* a write statement on a connection: sqlite3 opens a transaction before it,
\* so the statement changes only what this connection sees, until commit()
\* a connection in autocommit mode: every statement is committed at once
ExecAutocommit(w, d) == [db |-> d, tx |-> Some(d)]
Exec(w, d) == [db |-> w.db, tx |-> Some(d)]
\* what the connection that writes sees
View(w) == IF w.tx.some THEN w.tx.val ELSE w.db
\* db.commit()
Commit(w) == [db |-> View(w), tx |-> None]

\* ---- TemplateService.create_template ----
\* lines 33-36: the variables that are stored
CreateVariables(text, declared) ==
    LET detected_variables == extract_variables(text)
    IN IF ToSet(detected_variables) # ToSet(declared)
       THEN detected_variables ELSE declared

\* line 28-36: the name check, then the variables
create_check(w, ps) ==
    LET existing == DbGetTemplateByName(w.db, ps.arg.name)
    IN IF existing.some
       THEN Effect(w.db, w.tx,
                   Finish(ps, Raise(CreateFailed(AlreadyExists(ps.arg.name)))))
       ELSE Effect(w.db, w.tx,
                   Goto(ps, "create_insert",
                        [existing |-> existing,
                         variables |-> CreateVariables(ps.arg.text,
                                                       ps.arg.variables)]))

\* lines 38-44: db.create_template, one statement and its commit
create_insert(w, ps) ==
    LET r == DbCreateTemplate(w.db, ps.arg.name, ps.arg.description,
                              ps.arg.text, ps.loc.variables, ps.arg.category)
    IN IF r.err
       THEN Effect(w.db, w.tx, Finish(ps, Raise(CreateFailed(IntegrityError))))
       ELSE Effect(r.db, w.tx,
                   Goto(ps, "create_get",
                        [existing |-> ps.loc.existing,
                         variables |-> ps.loc.variables,
                         template_id |-> r.id]))

\* line 46: return await self.get_template(template_id)
create_get(w, ps) ==
    LET t == DbGetTemplate(w.db, ps.loc.template_id)
    IN Effect(w.db, w.tx,
              Finish(ps, IF t.some THEN Ok(t.val)
                         ELSE Raise(CreateFailed(NotFound(ps.loc.template_id)))))

\* ---- TemplateService.get_template ----
get_template(w, ps) ==
    LET t == DbGetTemplate(w.db, ps.arg.id)
    IN Effect(w.db, w.tx,
              Finish(ps, IF t.some THEN Ok(t.val) ELSE Raise(NotFound(ps.arg.id))))

\* ---- TemplateService.update_template ----
\* lines 93-99: the variables handed to the store
UpdateVariables(text, variables) ==
    IF text.some
    THEN LET detected_variables == extract_variables(text.val)
         IN IF ~variables.some THEN Some(detected_variables)
            ELSE IF ToSet(detected_variables) # ToSet(variables.val)
            THEN Some(detected_variables)
            ELSE variables
    ELSE variables

\* `if update_data.name`: a supplied, non-empty name
Truthy(name) == name.some /\ name.val # ""

\* lines 90-102
update_get(w, ps) ==
    LET existing == DbGetTemplate(w.db, ps.arg.id)
    IN IF ~existing.some
       THEN Effect(w.db, w.tx, Finish(ps, Raise(NotFound(ps.arg.id))))
       ELSE LET loc == [existing |-> existing.val,
                        variables |-> UpdateVariables(ps.arg.text,
                                                      ps.arg.variables)]
            IN IF Truthy(ps.arg.name) /\ ps.arg.name.val # existing.val.name
               THEN Effect(w.db, w.tx, Goto(ps, "update_check", loc))
               ELSE Effect(w.db, w.tx, Goto(ps, "update_write", loc))

\* lines 103-105
update_check(w, ps) ==
    LET existing_by_name == DbGetTemplateByName(w.db, ps.arg.name.val)
    IN IF existing_by_name.some
       THEN Effect(w.db, w.tx,
                   Finish(ps, Raise(AlreadyExists(ps.arg.name.val))))
       ELSE Effect(w.db, w.tx, Goto(ps, "update_write", ps.loc))

\* lines 107-117: db.update_template, one statement and its commit
update_write(w, ps) ==
    LET r == DbUpdateTemplate(w.db, ps.arg.id, ps.arg.name,
                              ps.arg.description, ps.arg.text,
                              ps.loc.variables, ps.arg.category)
    IN CASE r.out = "integrity" ->
              Effect(w.db, w.tx, Finish(ps, Raise(IntegrityError)))
         [] r.out = "false" ->
              Effect(w.db, w.tx, Finish(ps, Raise(UpdateFailed)))
         [] r.out = "true" ->
              Effect(r.db, w.tx, Goto(ps, "update_reget", ps.loc))

\* line 119
update_reget(w, ps) ==
    LET t == DbGetTemplate(w.db, ps.arg.id)
    IN Effect(w.db, w.tx,
              Finish(ps, IF t.some THEN Ok(t.val) ELSE Raise(NotFound(ps.arg.id))))


\* ---- TemplateService.delete_template ----
\* line 124: await self.get_template(template_id)
delete_get(w, ps) ==
    LET t == DbGetTemplate(w.db, ps.arg.id)
    IN IF t.some THEN Effect(w.db, w.tx, Goto(ps, "delete_usage", NoArg))
       ELSE Effect(w.db, w.tx, Finish(ps, Raise(NotFound(ps.arg.id))))

\* DatabaseManager.delete_template, first statement
delete_usage(w, ps) ==
    LET c == Exec(w, DbDeleteUsage(View(w), ps.arg.id))
    IN Effect(c.db, c.tx, Goto(ps, "delete_row", NoArg))

\* second statement; cursor.rowcount
delete_row(w, ps) ==
    LET c == Exec(w, DbDeleteRow(View(w), ps.arg.id))
    IN Effect(c.db, c.tx,
              Goto(ps, "delete_commit",
                   [rowcount |-> IF ps.arg.id \in DOMAIN View(w).templates
                                 THEN 1 ELSE 0]))

\* await db.commit(); return cursor.rowcount > 0
delete_commit(w, ps) ==
    LET c == Commit(w)
    IN Effect(c.db, c.tx, Finish(ps, Ok(ps.loc.rowcount > 0)))

\* ---- TemplateService.use_template ----
\* UseTemplateResponse
UseResponse(final_prompt, template_name, variables_used) ==
    [final_prompt |-> final_prompt, template_name |-> template_name,
     variables_used |-> variables_used]

\* the difference taken the wrong way round
MissingVariablesReversed(variables, values) == Keys(values) \ ToSet(variables)
\* line 133
MissingVariables(variables, values) == ToSet(variables) \ Keys(values)

\* lines 130-138
use_get(w, ps) ==
    LET t == DbGetTemplate(w.db, ps.arg.id)
    IN IF ~t.some
       THEN Effect(w.db, w.tx, Finish(ps, Raise(NotFound(ps.arg.id))))
       ELSE LET template == t.val
                missing_variables ==
                    MissingVariables(template.variables, ps.arg.values)
            IN IF missing_variables # {}
               THEN Effect(w.db, w.tx,
                           Finish(ps, Raise(MissingValues(missing_variables))))
               ELSE LET final_prompt == fill(template.text, ps.arg.values)
                    IN IF final_prompt.err
                       THEN Effect(w.db, w.tx,
                                   Finish(ps, Raise(ReError)))
                       ELSE Effect(w.db, w.tx,
                                   Goto(ps, "use_count",
                                        [template |-> template,
                                         final_prompt |-> final_prompt.text]))

\* an increment made of the counter read at line 130 (read, then write)
use_count_stale(w, ps) ==
    LET d == View(w)
        c == Exec(w, IF ps.arg.id \in DOMAIN d.templates
                     THEN [d EXCEPT !.templates[ps.arg.id].usage_count =
                                       ps.loc.template.usage_count + 1]
                     ELSE d)
    IN Effect(c.db, c.tx, Goto(ps, "use_log", ps.loc))
\* DatabaseManager.increment_usage_count, first statement
use_count(w, ps) ==
    LET c == Exec(w, DbIncrement(View(w), ps.arg.id))
    IN Effect(c.db, c.tx, Goto(ps, "use_log", ps.loc))

\* second statement
use_log(w, ps) ==
    LET c == Exec(w, DbInsertUsage(View(w), ps.arg.id))
    IN Effect(c.db, c.tx, Goto(ps, "use_commit", ps.loc))

\* await db.commit(), then lines 143-147
use_commit(w, ps) ==
    LET c == Commit(w)
    IN Effect(c.db, c.tx,
              Finish(ps, Ok(UseResponse(ps.loc.final_prompt,
                                        ps.loc.template.name,
                                        ps.arg.values))))

\* ---- TemplateService.get_stats ----
\* the four aggregates of TemplateStatsResponse (recent_templates, a listing
\* that reads the store once more, is left out)
get_stats(w, ps) == Effect(w.db, w.tx, Finish(ps, Ok(DbGetStats(w.db))))

\* ---- TemplateService.search_templates ----
\* the ids of the TemplateListItems returned, in their order
search_templates(w, ps) ==
    Effect(w.db, w.tx, Finish(ps, Ok(DbSearchTemplates(w.db, ps.arg.query))))

\* ---- scheduling ----
\* the step a handler takes at its position
StepOf(w, ps) ==
    CASE ps.pc = "create_check" -> create_check(w, ps)
      [] ps.pc = "create_insert" -> create_insert(w, ps)
      [] ps.pc = "create_get" -> create_get(w, ps)
      [] ps.pc = "get_template" -> get_template(w, ps)
      [] ps.pc = "update_get" -> update_get(w, ps)
      [] ps.pc = "update_check" -> update_check(w, ps)
      [] ps.pc = "update_write" -> update_write(w, ps)
      [] ps.pc = "update_reget" -> update_reget(w, ps)
      [] ps.pc = "delete_get" -> delete_get(w, ps)
      [] ps.pc = "delete_usage" -> delete_usage(w, ps)
      [] ps.pc = "delete_row" -> delete_row(w, ps)
      [] ps.pc = "delete_commit" -> delete_commit(w, ps)
      [] ps.pc = "use_get" -> use_get(w, ps)
      [] ps.pc = "use_count" -> use_count(w, ps)
      [] ps.pc = "use_log" -> use_log(w, ps)
      [] ps.pc = "use_commit" -> use_commit(w, ps)
      [] ps.pc = "get_stats" -> get_stats(w, ps)
      [] ps.pc = "search_templates" -> search_templates(w, ps)

\* positions whose statement starts a write transaction: the connection waits
\* for the database lock while another connection's transaction is open
TakesLock == {"create_insert", "update_write", "delete_usage", "use_count"}
Active(ps) == ps.pc \notin {"idle", "done"}
CanStep(w, ps) == Active(ps) /\ (ps.pc \in TakesLock => ~w.tx.some)

\* a request served with no other request in flight: every step to the end
RECURSIVE RunToEnd(_, _)
RunToEnd(w, ps) ==
    IF ~Active(ps) THEN Effect(w.db, w.tx, ps)
    ELSE LET e == StepOf(w, ps)
             next == [db |-> e.db, tx |-> e.tx]
         IN RunToEnd(next, e.ps)

World == [db |-> db, tx |-> tx]

\* ---- requests ----
CreateArgs ==
    [name : Names, description : OptionOf(Descriptions), text : Texts,
     variables : DeclaredLists, category : OptionOf(Categories)]
UpdateArgs ==
    [id : Ids, name : OptionOf(Names), description : OptionOf(Descriptions),
     text : OptionOf(Texts), variables : OptionOf(DeclaredLists),
     category : OptionOf(Categories)]
UseArgs == [id : Ids, values : ValueMaps]
IdArgs == [id : Ids]

Init ==
    /\ db = EmptyDb
    /\ tx = None
    /\ procs = [p \in Procs |-> Idle]
    /\ now = 0

\* the whole of one request, start to end (requests that would insert more
\* rows than the bounds allow are left out)
Serve(ps) ==
    \E e \in {RunToEnd(World, ps)} :
       /\ e.db.seq_templates <= MaxTemplates
       /\ e.db.seq_usage <= MaxUsage
       /\ db' = e.db
       /\ tx' = e.tx
       /\ procs' = [procs EXCEPT ![MainProc] = e.ps]
       /\ UNCHANGED now

CreateTemplate == \E a \in CreateArgs : Serve(Call("create", "create_check", a))
GetTemplate == \E a \in IdArgs : Serve(Call("get", "get_template", a))
UpdateTemplate == \E a \in UpdateArgs : Serve(Call("update", "update_get", a))
DeleteTemplate == \E a \in IdArgs : Serve(Call("delete", "delete_get", a))
UseTemplate == \E a \in UseArgs : Serve(Call("use", "use_get", a))

Next ==
    \/ CreateTemplate
    \/ GetTemplate
    \/ UpdateTemplate
    \/ DeleteTemplate
    \/ UseTemplate

Spec == Init /\ [][Next]_vars


(***************************************************************************)
(* Requests in flight together: each handler takes one step at a time, a   *)
(* step being what it does between two awaits on the database.             *)
(***************************************************************************)
NamePatch(id, name) ==
    [id |-> id, name |-> Some(name), description |-> None, text |-> None,
     variables |-> None, category |-> None]
TextPatch(id, text) ==
    [id |-> id, name |-> None, description |-> None, text |-> Some(text),
     variables |-> None, category |-> None]
ConcCalls ==
    {Call("create", "create_check",
          [name |-> n, description |-> None, text |-> TextA,
           variables |-> <<VarB, VarA>>, category |-> None]) : n \in Names}
    \cup {Call("update", "update_get", NamePatch(i, n)) :
             i \in Ids, n \in Names}
    \cup {Call("delete", "delete_get", [id |-> i]) : i \in Ids}
    \cup {Call("use", "use_get", [id |-> i, values |-> << <<VarA, <<"X">>>> >>]) :
             i \in Ids}
    \cup {Call("get", "get_template", [id |-> i]) : i \in Ids}

\* requests of an operation that have not reached their end
InFlight(op) == Cardinality({p \in Procs : procs[p].op = op /\ Active(procs[p])})

Begin(p) ==
    /\ ~Active(procs[p])
    /\ \E c \in ConcCalls :
          /\ c.op = "create" => db.seq_templates + InFlight("create") < MaxTemplates
          /\ c.op = "use" => db.seq_usage + InFlight("use") < MaxConcUsage
          /\ procs' = [procs EXCEPT ![p] = c]
    /\ UNCHANGED <<db, tx, now>>

At(p, pc) ==
    /\ procs[p].pc = pc
    /\ CanStep(World, procs[p])
    /\ \E e \in {StepOf(World, procs[p])} :
          /\ db' = e.db
          /\ tx' = e.tx
          /\ procs' = [procs EXCEPT ![p] = e.ps]
    /\ UNCHANGED now

NextConc ==
    \E p \in Procs :
        \/ Begin(p)
        \/ At(p, "create_check")
        \/ At(p, "create_insert")
        \/ At(p, "create_get")
        \/ At(p, "get_template")
        \/ At(p, "update_get")
        \/ At(p, "update_check")
        \/ At(p, "update_write")
        \/ At(p, "update_reget")
        \/ At(p, "delete_get")
        \/ At(p, "delete_usage")
        \/ At(p, "delete_row")
        \/ At(p, "delete_commit")
        \/ At(p, "use_get")
        \/ At(p, "use_count")
        \/ At(p, "use_log")
        \/ At(p, "use_commit")

SpecConc == Init /\ [][NextConc]_vars

\* Creates and updates of the text in flight together.
EditCalls ==
    {Call("create", "create_check",
          [name |-> n, description |-> None, text |-> TextA,
           variables |-> <<VarB, VarA>>, category |-> None]) : n \in Names}
    \cup {Call("update", "update_get",
                [TextPatch(i, t) EXCEPT !.variables = v]) :
             i \in Ids, t \in Texts, v \in OptionOf(DeclaredLists)}

BeginEdit(p) ==
    /\ ~Active(procs[p])
    /\ \E c \in EditCalls :
          /\ c.op = "create" => db.seq_templates + InFlight("create") < MaxTemplates
          /\ procs' = [procs EXCEPT ![p] = c]
    /\ UNCHANGED <<db, tx, now>>

NextEdit ==
    \E p \in Procs :
        \/ BeginEdit(p)
        \/ At(p, "create_check")
        \/ At(p, "create_insert")
        \/ At(p, "create_get")
        \/ At(p, "update_get")
        \/ At(p, "update_write")
        \/ At(p, "update_reget")

SpecEdit == Init /\ [][NextEdit]_vars


(***************************************************************************)
(* Requests served one at a time while the clock runs: a request is        *)
(* received, served to its end and answered before the next one.  The      *)
(* requests here vary the name (the empty name included), the category and *)
(* which fields a patch supplies; updates address template 1, and the      *)
(* other template is there to be left alone.                               *)
(***************************************************************************)
StoreNames == {"", "n1", "not found"}
StoreCategories == {"c1"}
StoreCreateArgs ==
    [name : StoreNames, description : {None}, text : {TextA},
     variables : {<<>>}, category : OptionOf(StoreCategories)]
StoreUpdateArgs ==
    [id : {1}, name : OptionOf(StoreNames),
     description : OptionOf(Descriptions), text : OptionOf({TextBA}),
     variables : OptionOf(DeclaredLists), category : OptionOf(StoreCategories)]
\* "N", "d", "_", "%"
SearchQueries == {<<"N">>, <<"d">>, <<"_">>, <<"%">>}
StoreUseArgs == [id : Ids, values : {<< <<VarA, <<"X">>>>, <<VarB, <<"Y">>>> >>}]

\* the clock moves on between two requests
Tick ==
    /\ procs[MainProc] = Idle
    /\ now < MaxTime
    /\ now' = now + 1
    /\ UNCHANGED <<db, tx, procs>>

Receive(c) ==
    /\ procs[MainProc] = Idle
    /\ c.op = "create" => db.seq_templates < MaxTemplates
    /\ c.op = "use" =>
          (db.seq_usage < MaxUsage \/ c.arg.id \notin DOMAIN db.templates)
    /\ procs' = [procs EXCEPT ![MainProc] = c]
    /\ UNCHANGED <<db, tx, now>>

ReceiveCreate ==
    \E a \in StoreCreateArgs : Receive(Call("create", "create_check", a))
ReceiveGet == \E a \in IdArgs : Receive(Call("get", "get_template", a))
ReceiveUpdate ==
    \E a \in StoreUpdateArgs : Receive(Call("update", "update_get", a))
ReceiveDelete == \E a \in IdArgs : Receive(Call("delete", "delete_get", a))
ReceiveUse == \E a \in StoreUseArgs : Receive(Call("use", "use_get", a))
ReceiveStats == Receive(Call("stats", "get_stats", NoArg))
ReceiveSearch ==
    \E q \in SearchQueries :
        Receive(Call("search", "search_templates", [query |-> q]))

\* the request is served, start to end
Respond == Active(procs[MainProc]) /\ Serve(procs[MainProc])

\* the answer is sent: the handler is free again
Return ==
    /\ procs[MainProc].pc = "done"
    /\ procs' = [procs EXCEPT ![MainProc] = Idle]
    /\ UNCHANGED <<db, tx, now>>

NextStore ==
    \/ Tick
    \/ ReceiveCreate
    \/ ReceiveGet
    \/ ReceiveUpdate
    \/ ReceiveDelete
    \/ ReceiveUse
    \/ ReceiveStats
    \/ ReceiveSearch
    \/ Respond
    \/ Return

SpecStore == Init /\ [][NextStore]_vars


(***************************************************************************)
(* The placeholder engine on its own: a call of extract_variables, fill or *)
(* preview with its arguments, and the step that computes its outcome.     *)
(***************************************************************************)
\* chunks a text is put together from
MaxChunks == 2
\* pairs of a dict of values
MaxPairs == 2

InnerSpaces == {<<>>, <<"\n", " ">>}
InnerNames ==
    {<<"a">>, <<"B">>, <<"_">>, <<"a", "1">>, <<"1", "a">>, <<>>,
     <<"a", " ", "b">>}
\* "<%=" white space, something in the place of the name, white space, "%>"
Delimited ==
    {Open \o w1 \o n \o w2 \o Close :
        w1 \in InnerSpaces, n \in InnerNames, w2 \in InnerSpaces}
\* "<%a%>", "<% = a %>", "<%=a%", "<%=a>", "=a%>", "x"
Malformed ==
    {<<"<", "%", "a", "%", ">">>,
     <<"<", "%", " ", "=", " ", "a", " ", "%", ">">>,
     <<"<", "%", "=", "a", "%">>,
     <<"<", "%", "=", "a", ">">>,
     <<"=", "a", "%", ">">>,
     <<"x">>}
Chunks == Delimited \cup Malformed
RECURSIVE ChunkTexts(_)
ChunkTexts(n) ==
    IF n = 0 THEN {<<>>}
    ELSE LET shorter == ChunkTexts(n - 1)
         IN shorter \cup {c \o t : c \in Chunks, t \in shorter}
ExtractTexts == ChunkTexts(MaxChunks)

\* "Hello <%= name %>!" and its variable
VarName == <<"n", "a", "m", "e">>
TextHello ==
    <<"H", "e", "l", "l", "o", " ">> \o Open \o <<" ">> \o VarName
        \o <<" ">> \o Close \o <<"!">>
\* "Hi <%= a %> and <%= b %>"
TextHi ==
    <<"H", "i", " ">> \o TextA \o <<" ", "a", "n", "d", " ">>
        \o Open \o <<" ">> \o VarB \o <<" ">> \o Close
\* "<%=a%>+<% = a %>+<%= b %>"
TextForms ==
    Open \o VarA \o Close \o <<"+">>
        \o <<"<", "%", " ", "=", " ", "a", " ", "%", ">", "+">>
        \o Open \o <<" ">> \o VarB \o <<" ">> \o Close
FillTexts == {<<>>, <<"x">>, TextA, TextBA, TextForms, TextHello, TextHi}
FillKeys == {VarA, VarB, <<".">>, <<"(">>}
\* "X", "", a backslash and "n", a backslash and "1", two backslashes, "<%=b%>"
FillValues ==
    {<<"X">>, <<>>, <<"\\", "n">>, <<"\\", "1">>, <<"\\", "\\">>,
     Open \o VarB \o Close}
FillPairs == {<<k, v>> : k \in FillKeys, v \in FillValues}
\* the dicts of at most n pairs, keys distinct, in insertion order
RECURSIVE Dicts(_)
Dicts(n) ==
    IF n = 0 THEN {<<>>}
    ELSE LET shorter == Dicts(n - 1)
         IN shorter \cup {Append(d, p) : d \in shorter, p \in FillPairs}
FillDicts ==
    {d \in Dicts(MaxPairs) : Cardinality(Keys(d)) = Len(d)}
        \cup {<< <<VarName, <<"W", "o", "r", "l", "d">>>> >>}

\* the handlers when MainProc holds call c
Holding(c) == [p \in Procs |-> IF p = MainProc THEN c ELSE Idle]

InitPure ==
    /\ db = EmptyDb
    /\ tx = None
    /\ now = 0
    /\ \/ \E t \in ExtractTexts :
             procs = Holding(Call("extract", "extract", [text |-> t]))
       \/ \E t \in FillTexts, d \in FillDicts :
             procs = Holding(Call("fill", "fill", [text |-> t, values |-> d]))
       \/ \E t \in FillTexts, d \in FillDicts :
             procs = Holding(Call("preview", "preview",
                                  [text |-> t, values |-> d]))

\* the outcome of the engine: the text, or the re.error
Outcome(r) == IF r.err THEN Raise(ReError) ELSE Ok(r.text)

Extract ==
    /\ procs[MainProc].pc = "extract"
    /\ procs' = [procs EXCEPT ![MainProc] =
                    Finish(@, Ok(extract_variables(@.arg.text)))]
    /\ UNCHANGED <<db, tx, now>>

Fill ==
    /\ procs[MainProc].pc = "fill"
    /\ procs' = [procs EXCEPT ![MainProc] =
                    Finish(@, Outcome(fill(@.arg.text, @.arg.values)))]
    /\ UNCHANGED <<db, tx, now>>

Preview ==
    /\ procs[MainProc].pc = "preview"
    /\ \E order \in Orders(PreviewMissing(procs[MainProc].arg.text,
                                            procs[MainProc].arg.values)) :
          procs' = [procs EXCEPT ![MainProc] =
                      Finish(@, Outcome(preview_template(@.arg.text,
                                                         @.arg.values, order)))]
    /\ UNCHANGED <<db, tx, now>>

NextPure ==
    \/ Extract
    \/ Fill
    \/ Preview

SpecPure == InitPure /\ [][NextPure]_vars


(***************************************************************************)
(* The JSON API: the status each route answers with (200 when the service  *)
(* call returns).                                                          *)
(***************************************************************************)
\* POST /api/templates
api_create_template(res) ==
    IF res.ok THEN 200
    ELSE IF res.error.type = "ValueError" THEN 400 ELSE 500

\* names that hold the words "not found"
NotFoundNames == {"not found"}
\* "not found" in str(e), for the messages of the ValueErrors
SaysNotFound(msg) ==
    \/ msg.tag = "not found"
    \/ msg.tag = "already exists" /\ msg.name \in NotFoundNames

\* GET /api/templates/{template_id}
api_get_template(res) ==
    IF res.ok THEN 200
    ELSE IF res.error.type = "ValueError" THEN 404 ELSE 500

\* PUT /api/templates/{template_id}
api_update_template(res) ==
    IF res.ok THEN 200
    ELSE IF res.error.type = "ValueError"
    THEN (IF SaysNotFound(res.error.msg) THEN 404 ELSE 400)
    ELSE 500

\* DELETE /api/templates/{template_id}: the HTTPException(500) raised for a
\* False result is caught by `except Exception` and raised again as 500
api_delete_template(res) ==
    IF res.ok THEN (IF res.value THEN 200 ELSE 500)
    ELSE IF res.error.type = "ValueError" THEN 404 ELSE 500

\* POST /api/templates/{template_id}/use
api_use_template(res) ==
    IF res.ok THEN 200
    ELSE IF res.error.type = "ValueError" THEN 400 ELSE 500

\* POST /templates/{template_id}/delete (HTML): a redirect, or 500 for every
\* exception
delete_template_form(res) == IF res.ok THEN 303 ELSE 500

(***************************************************************************)
(* Properties.  Under Spec the handler MainProc holds the request served   *)
(* last and its outcome; db is the store before a step and db' after it.   *)
(***************************************************************************)
Last == procs[MainProc]
Served(ps, op) == ps.pc = "done" /\ ps.op = op
Stored(d) == DOMAIN d.templates
NameStored(d, name) == \E i \in Stored(d) : d.templates[i].name = name
UsageOf(d, id) == {u \in DOMAIN d.usage : d.usage[u] = id}
IsError(res, tag) == ~res.ok /\ res.error.msg.tag = tag

\* C1: every stored template's variables are, as a set, the placeholder names
\* of its stored text.
C1_VariablesMatchText ==
    \A i \in Stored(db) :
        ToSet(db.templates[i].variables)
            = ToSet(extract_variables(db.templates[i].text))

\* C2: no two stored templates have the same name, in every state of every
\* interleaving of requests.
C2_UniqueNames ==
    \A i, j \in Stored(db) :
        i # j => db.templates[i].name # db.templates[j].name
\* two creates of one name are both past the name check, before either writes
C2_Witness ==
    \E p, q \in Procs :
        /\ p # q
        /\ procs[p].pc = "create_insert"
        /\ procs[q].pc = "create_insert"
        /\ procs[p].arg.name = procs[q].arg.name

\* C3: a create whose name is stored fails with the duplicate-name error (the
\* ValueError "... already exists") and leaves the store as it was.
C3_DuplicateCreateFails ==
    [][(Served(Last', "create") /\ NameStored(db, Last'.arg.name))
         => (Last'.res = Raise(AlreadyExists(Last'.arg.name)) /\ db' = db)]_vars

\* C4: POST /api/templates with a stored name is answered 400 (or 409).
C4_DuplicateCreateStatus ==
    [][(Served(Last', "create") /\ NameStored(db, Last'.arg.name))
         => api_create_template(Last'.res) \in {400, 409}]_vars

\* C5: after a create, and after an update that supplies text, the stored
\* variables are the sequence extract_variables(text).
C5_StoredVariablesAreExtracted ==
    /\ (Served(Last, "create") /\ Last.res.ok)
         => db.templates[Last.res.value.id].variables
                = extract_variables(Last.arg.text)
    /\ (Served(Last, "update") /\ Last.res.ok /\ Last.arg.text.some)
         => db.templates[Last.arg.id].variables
                = extract_variables(Last.arg.text.val)

\* C6: use of a stored template fails with the missing-variables error exactly
\* when a declared variable is no key of values; the error names exactly those
\* variables, and nothing in the store changes.
C6_UseMissingVariables ==
    [][(Served(Last', "use") /\ Last'.arg.id \in Stored(db))
         => LET declared == ToSet(db.templates[Last'.arg.id].variables)
                absent == {v \in declared : v \notin Keys(Last'.arg.values)}
            IN /\ IsError(Last'.res, "missing values") <=> absent # {}
               /\ IsError(Last'.res, "missing values")
                    => /\ Last'.res.error = MissingValues(absent)
                       /\ db' = db]_vars
C6_Witness ==
    /\ Served(Last, "use")
    /\ IsError(Last.res, "missing values")
    /\ Last.arg.values # <<>>

\* C7: a successful use adds 1 to the usage counter of its template, adds one
\* usage record that references it, changes nothing else, and returns the
\* filled stored text with the template's name and the values it was given.
C7_UseEffect ==
    [][(Served(Last', "use") /\ Last'.res.ok)
         => LET id == Last'.arg.id
            IN /\ id \in Stored(db)
               /\ db'.templates =
                      [db.templates EXCEPT ![id].usage_count = @ + 1]
               /\ \E u \in DOMAIN db'.usage \ DOMAIN db.usage :
                      /\ DOMAIN db'.usage = DOMAIN db.usage \cup {u}
                      /\ db'.usage[u] = id
               /\ \A u \in DOMAIN db.usage : db'.usage[u] = db.usage[u]
               /\ db'.seq_templates = db.seq_templates
               /\ Last'.res.value =
                      UseResponse(fill(db.templates[id].text,
                                       Last'.arg.values).text,
                                  db.templates[id].name, Last'.arg.values)]_vars
\* a use succeeded while another template was stored
C7_Witness ==
    /\ Served(Last, "use")
    /\ Last.res.ok
    /\ Cardinality(Stored(db)) = 2
    /\ Last.res.value.final_prompt # db.templates[Last.arg.id].text

\* C8: with requests served one at a time, a stored template's usage counter
\* is the number of usage records that reference it, and a template just
\* created has counter 0.
C8_CounterCountsRecords ==
    /\ \A i \in Stored(db) :
          db.templates[i].usage_count = Cardinality(UsageOf(db, i))
    /\ (Served(Last, "create") /\ Last.res.ok)
          => db.templates[Last.res.value.id].usage_count = 0
C8_Witness ==
    \E i \in Stored(db) :
        /\ db.templates[i].usage_count > 0
        /\ Cardinality(Stored(db)) = 2

\* ids that were given to a template that is stored no more
Deleted(d) == (1..d.seq_templates) \ Stored(d)

\* C9: a deleted id stays absent; get, update, use and delete of an absent id
\* fail with the not-found error and change nothing; a successful delete
\* leaves neither the template nor a usage record that references it.
C9_DeleteThenNotFound ==
    [][/\ Deleted(db) \subseteq Deleted(db')
       /\ \A u \in DOMAIN db'.usage : db'.usage[u] \notin Deleted(db')
       /\ (Last'.pc = "done" /\ Last'.op \in {"get", "update", "use", "delete"}
             /\ Last'.arg.id \notin Stored(db))
            => (Last'.res = Raise(NotFound(Last'.arg.id)) /\ db' = db)
       /\ (Served(Last', "delete") /\ Last'.res.ok)
            => /\ Last'.res.value = TRUE
               /\ Last'.arg.id \in Deleted(db')
               /\ db'.templates =
                     [i \in Stored(db) \ {Last'.arg.id} |-> db.templates[i]]]_vars
\* a template that had been used was deleted, and a later use of it failed
C9_Witness ==
    /\ Served(Last, "use")
    /\ Last.arg.id \in Deleted(db)
    /\ Last.res = Raise(NotFound(Last.arg.id))
    /\ db.seq_usage > 0
    /\ DOMAIN db.usage = {}

\* C10: what other connections see of a delete is all of it or none: no
\* committed step removes a usage record and leaves its template, and none
\* removes a template and leaves a usage record that referenced it.
C10_DeleteAtomic ==
    [][/\ \A u \in DOMAIN db.usage \ DOMAIN db'.usage :
             db.usage[u] \notin Stored(db')
       /\ \A i \in Stored(db) \ Stored(db') :
             \A u \in DOMAIN db.usage \cap DOMAIN db'.usage : db.usage[u] # i]_vars
\* a delete is between its two statements (its usage records are gone for its
\* own connection only) while another request is in flight
C10_Witness ==
    \E p, q \in Procs :
        /\ p # q
        /\ procs[p].pc = "delete_row"
        /\ Active(procs[q])
        /\ UsageOf(db, procs[p].arg.id) # {}
        /\ UsageOf(tx.val, procs[p].arg.id) = {}
        /\ procs[p].arg.id \in Stored(db)


\* C11: a successful update leaves alone every field its patch does not supply
\* (variables follow a supplied text), the id, created_at, the usage counter,
\* the usage records and every other template.
C11_UpdateFrame ==
    [][(Served(Last', "update") /\ Last'.res.ok)
         => LET a == Last'.arg
                id == a.id
            IN /\ id \in Stored(db)
               /\ Stored(db') = Stored(db)
               /\ ~a.name.some
                    => db'.templates[id].name = db.templates[id].name
               /\ ~a.description.some
                    => db'.templates[id].description
                           = db.templates[id].description
               /\ ~a.text.some
                    => db'.templates[id].text = db.templates[id].text
               /\ (~a.text.some /\ ~a.variables.some)
                    => db'.templates[id].variables = db.templates[id].variables
               /\ ~a.category.some
                    => db'.templates[id].category = db.templates[id].category
               /\ db'.templates[id].created_at = db.templates[id].created_at
               /\ db'.templates[id].usage_count = db.templates[id].usage_count
               /\ db'.usage = db.usage
               /\ \A j \in Stored(db) \ {id} :
                      db'.templates[j] = db.templates[j]
               /\ db'.seq_templates = db.seq_templates
               /\ db'.seq_usage = db.seq_usage]_vars
\* a later rename of a used template that has a category and a neighbour
C11_Witness ==
    /\ Served(Last, "update")
    /\ Last.res.ok
    /\ Last.arg.name.some
    /\ ~Last.arg.category.some
    /\ db.templates[Last.arg.id].category.some
    /\ db.templates[Last.arg.id].updated_at > db.templates[Last.arg.id].created_at
    /\ db.templates[Last.arg.id].usage_count > 0
    /\ Cardinality(Stored(db)) = 2

\* C12: an update whose name differs from the template's own and is the name
\* of another stored template fails with the duplicate-name error and changes
\* no template; an update to the template's own name succeeds.
C12_RenameCollision ==
    [][(Served(Last', "update") /\ Last'.arg.id \in Stored(db)
          /\ Last'.arg.name.some)
         => LET id == Last'.arg.id
                name == Last'.arg.name.val
            IN /\ (name # db.templates[id].name /\ NameStored(db, name))
                    => /\ Last'.res = Raise(AlreadyExists(name))
                       /\ db'.templates = db.templates
               /\ name = db.templates[id].name => Last'.res.ok]_vars

\* C13: every route addressed to an absent id answers 404.
C13_AbsentIdStatus ==
    [][(Last'.pc = "done" /\ Last'.op \in {"get", "update", "delete", "use"}
          /\ Last'.arg.id \notin Stored(db))
         => /\ Last'.op = "get" => api_get_template(Last'.res) = 404
            /\ Last'.op = "update" => api_update_template(Last'.res) = 404
            /\ Last'.op = "delete"
                 => /\ api_delete_template(Last'.res) = 404
                    /\ delete_template_form(Last'.res) = 404
            /\ Last'.op = "use" => api_use_template(Last'.res) = 404]_vars


(***************************************************************************)
(* What the specification says of the engine, stated on the text itself.   *)
(***************************************************************************)
\* letters, digits and underscores, the first no digit
IsIdentifier(n) ==
    /\ n # <<>>
    /\ n[1] \in IdentStarts
    /\ \A i \in 1..Len(n) : n[i] \in IdentChars
AllSpaces(t, i, j) == \A k \in i..j : t[k] \in Spaces
\* the identifiers that stand in t between "<%=" and "%>", white space around
\* them or none
NamedIn(t) ==
    {SubSeq(t, p[1], p[2]) :
        p \in {q \in (1..Len(t)) \X (1..Len(t)) :
                 /\ q[1] <= q[2]
                 /\ IsIdentifier(SubSeq(t, q[1], q[2]))
                 /\ \E i \in 1..(q[1] - 3) :
                       /\ SubSeq(t, i, i + 2) = Open
                       /\ AllSpaces(t, i + 3, q[1] - 1)
                 /\ \E m \in (q[2] + 1)..(Len(t) - 1) :
                       /\ AllSpaces(t, q[2] + 1, m - 1)
                       /\ SubSeq(t, m, m + 1) = Close}}
StrictlySorted(xs) ==
    \A i, j \in 1..Len(xs) : i < j => StrLess(xs[i], xs[j])

\* the placeholder of a key, the key read character for character
Literally(key) == [i \in 1..Len(key) |-> Lit(key[i])]
PlaceholderOf(key) ==
    <<Lit("<"), Lit("%"), Lit("="), SpaceStar>> \o Literally(key)
        \o <<SpaceStar, Lit("%"), Lit(">")>>
SpacedPlaceholderOf(key) ==
    <<Lit("<"), Lit("%"), SpaceStar, Lit("="), SpaceStar>> \o Literally(key)
        \o <<SpaceStar, Lit("%"), Lit(">")>>
Occurs(text, key) ==
    \E i \in 1..Len(text) :
        \/ MatchFrom(PlaceholderOf(key), 1, text, i) # 0
        \/ MatchFrom(SpacedPlaceholderOf(key), 1, text, i) # 0
\* every placeholder of each key, in turn, replaced by the key's value as it is
RECURSIVE LiteralFill(_, _, _)
LiteralFill(text, values, n) ==
    IF n > Len(values) THEN text
    ELSE LET key == values[n][1]
             value == values[n][2]
         IN LiteralFill(SubFrom(SpacedPlaceholderOf(key), value,
                                SubFrom(PlaceholderOf(key), value, text, 1), 1),
                        values, n + 1)
Bracketed(v) == <<"[">> \o v \o <<"]">>

\* C14: extract_variables never fails and returns, sorted and without
\* duplicates, exactly the identifiers that stand in a well-formed placeholder
\* of the text.
C14_ExtractVariables ==
    Served(Last, "extract")
      => /\ Last.res.ok
         /\ StrictlySorted(Last.res.value)
         /\ ToSet(Last.res.value) = NamedIn(Last.arg.text)
\* two placeholders out of order next to a name that starts with a digit
C14_Witness ==
    /\ Served(Last, "extract")
    /\ Last.res.value = <<<<"B">>, <<"a">>>>
    /\ FindAll(Last.arg.text, 1) = <<<<"a">>, <<"B">>>>
    /\ Len(Last.arg.text) > 12

\* C15: fill puts the value of each key, character for character, in the
\* place of every placeholder of the key.
C15_FillInsertsValue ==
    (Served(Last, "fill") /\ \A k \in Keys(Last.arg.values) : IsIdentifier(k))
      => Last.res = Ok(LiteralFill(Last.arg.text, Last.arg.values, 1))

\* C16: fill with keys whose placeholders do not occur in the text returns
\* the text as it is.
C16_FillFrame ==
    (Served(Last, "fill")
       /\ \A k \in Keys(Last.arg.values) : ~Occurs(Last.arg.text, k))
      => Last.res = Ok(Last.arg.text)

\* C17: preview never fails, and the preview of the empty text is the empty
\* string.
C17_PreviewNeverFails ==
    Served(Last, "preview")
      => /\ Last.res.ok
         /\ Last.arg.text = <<>> => Last.res.value = <<>>

\* C18: preview is fill with the values and, for every variable of the text
\* that has no value, its name in brackets; "Hi <%= a %> and <%= b %>" with
\* a = "X" gives "Hi X and [b]".
C18_PreviewIsFill ==
    Served(Last, "preview")
      => LET text == Last.arg.text
             values == Last.arg.values
             unsupplied ==
                 SortedList(ToSet(extract_variables(text)) \ Keys(values))
             extended ==
                 values \o [i \in 1..Len(unsupplied) |->
                               <<unsupplied[i], Bracketed(unsupplied[i])>>]
         IN /\ Last.res = Outcome(fill(text, extended))
            /\ (text = TextHi /\ values = << <<VarA, <<"X">>>> >>)
                 => Last.res = Ok(<<"H", "i", " ", "X", " ", "a", "n", "d",
                                    " ", "[", "b", "]">>)
C18_Witness ==
    /\ Served(Last, "preview")
    /\ Last.res.ok
    /\ Keys(Last.arg.values) = {VarA}
    /\ VarB \in ToSet(extract_variables(Last.arg.text))
    /\ Last.res.value # Last.arg.text


\* the usage counters of the templates with an id up to n, added up
RECURSIVE CountersUpTo(_, _)
CountersUpTo(d, n) ==
    IF n = 0 THEN 0
    ELSE (IF n \in Stored(d) THEN d.templates[n].usage_count ELSE 0)
             + CountersUpTo(d, n - 1)

C20_Stats ==
    Served(Last, "stats")
      => LET stats == Last.res.value
         IN /\ Last.res.ok
            /\ stats.total_templates = Cardinality(Stored(db))
            /\ stats.total_usage = CountersUpTo(db, db.seq_templates)
            /\ stats.categories_count =
                   Cardinality({c \in StoreCategories :
                       \E i \in Stored(db) : db.templates[i].category = Some(c)})
            /\ Stored(db) # {}
                 => \E i \in Stored(db) :
                       /\ stats.most_used_template =
                              [name |-> Some(db.templates[i].name),
                               usage_count |-> db.templates[i].usage_count]
                       /\ \A k \in Stored(db) :
                              /\ db.templates[k].usage_count
                                     <= db.templates[i].usage_count
                              /\ k < i => db.templates[k].usage_count
                                             < db.templates[i].usage_count
\* the most used template is the second of two that share a category
C20_Witness ==
    /\ Served(Last, "stats")
    /\ Stored(db) = {1, 2}
    /\ db.templates[1].category = db.templates[2].category
    /\ db.templates[1].category.some
    /\ db.templates[2].usage_count > db.templates[1].usage_count
    /\ Last.res.value.most_used_template.name = Some(db.templates[2].name)


\* q stands in s, character for character, letters without regard to case
Contains(s, q) ==
    \E k \in 1..(Len(s) - Len(q) + 1) :
        \A n \in 1..Len(q) : Lower(s[k + n - 1]) = Lower(q[n])

\* C21: search returns exactly the stored templates whose name or description
\* contains the query as a literal substring, letters without regard to case,
\* the newest first.
C21_Search ==
    Served(Last, "search")
      => LET found == Last.res.value
             query == Last.arg.query
         IN /\ Last.res.ok
            /\ Cardinality(ToSet(found)) = Len(found)
            /\ ToSet(found) =
                   {i \in Stored(db) :
                       \/ Contains(Spelling(db.templates[i].name), query)
                       \/ /\ db.templates[i].description.some
                          /\ Contains(Spelling(db.templates[i].description.val),
                                      query)}
            /\ \A m, n \in 1..Len(found) :
                   m < n => db.templates[found[m]].created_at
                               >= db.templates[found[n]].created_at


\* the handlers whose last request was a successful use of template i
UsedBy(i) ==
    {p \in Procs : Served(procs[p], "use") /\ procs[p].res.ok
                      /\ procs[p].arg.id = i}

\* C22: uses of one template in flight together lose no increment: the
\* counter of a stored template is the number of its usage records, and it
\* counts every use that has succeeded.
C22_NoLostIncrement ==
    \A i \in Stored(db) :
        /\ db.templates[i].usage_count = Cardinality(UsageOf(db, i))
        /\ db.templates[i].usage_count >= Cardinality(UsedBy(i))
\* two uses of one template have both read its counter at 0: one is about to
\* commit, the other waits to write
C22_Witness ==
    \E p, q \in Procs :
        /\ procs[p].pc = "use_commit"
        /\ procs[q].pc = "use_count"
        /\ procs[p].arg.id = procs[q].arg.id
        /\ procs[p].loc.template.usage_count = 0
        /\ procs[q].loc.template.usage_count = 0

\* what a create gets when its name check finds the name
PreCheckFailure(name) == Raise(CreateFailed(AlreadyExists(name)))

\* C23: of creates of one name in flight together at most one stores a
\* template; a create that ends at its name check or at its INSERT while the
\* name is stored fails, with the kind of error and the status of the name
\* check's failure, and stores nothing.
C23_ConcurrentCreate ==
    [][\A p \in Procs :
         (/\ procs[p].pc \in {"create_check", "create_insert"}
          /\ procs'[p].pc = "done"
          /\ NameStored(db, procs[p].arg.name))
           => LET name == procs[p].arg.name
                  res == procs'[p].res
              IN /\ ~res.ok
                 /\ res.error.type = PreCheckFailure(name).error.type
                 /\ api_create_template(res)
                        = api_create_template(PreCheckFailure(name))
                 /\ db' = db
                 /\ Cardinality({i \in Stored(db') :
                                    db'.templates[i].name = name}) = 1]_vars
\* a create passed the name check and lost at the INSERT
C23_Witness ==
    \E p \in Procs :
        /\ Served(procs[p], "create")
        /\ procs[p].res = Raise(CreateFailed(IntegrityError))


\* C24: no stored template has the empty name.
C24_NonEmptyNames ==
    \A i \in Stored(db) : db.templates[i].name # ""


\* C25: PUT /api/templates/{id} answers 404 exactly when the id is absent,
\* and 400 when the id is stored and the new name is that of another
\* template.
C25_PutStatus ==
    [][Served(Last', "update")
         => LET id == Last'.arg.id
                name == Last'.arg.name
                status == api_update_template(Last'.res)
            IN /\ status = 404 <=> id \notin Stored(db)
               /\ (/\ id \in Stored(db)
                   /\ name.some
                   /\ name.val # db.templates[id].name
                   /\ NameStored(db, name.val))
                    => status = 400]_vars


\* C26: an update of a stored template whose name is not that of another
\* template succeeds, a patch without any field included, and returns the
\* template with the fields it does not supply as they were.
C26_UpdateSucceeds ==
    [][(/\ Served(Last', "update")
        /\ Last'.arg.id \in Stored(db)
        /\ ~(/\ Last'.arg.name.some
             /\ Last'.arg.name.val # db.templates[Last'.arg.id].name
             /\ NameStored(db, Last'.arg.name.val)))
         => LET a == Last'.arg
                old == db.templates[a.id]
            IN /\ Last'.res.ok
               /\ Last'.res.value.id = a.id
               /\ ~a.name.some => Last'.res.value.name = old.name
               /\ ~a.description.some
                    => Last'.res.value.description = old.description
               /\ ~a.text.some => Last'.res.value.text = old.text
               /\ ~a.category.some
                    => Last'.res.value.category = old.category]_vars


\* C27: every usage record references a stored template, however uses and
\* deletes interleave.
C27_NoOrphanUsage ==
    \A u \in DOMAIN db.usage : db.usage[u] \in Stored(db)

\* the end of the placeholder of a key that starts at index i of text (0: none)
PlaceholderEnd(text, key, i) ==
    LET e == MatchFrom(PlaceholderOf(key), 1, text, i)
    IN IF e # 0 THEN e ELSE MatchFrom(SpacedPlaceholderOf(key), 1, text, i)
\* one pass over the text: a placeholder of a key gives the key's value, every
\* other character itself; what is put in is not read again
RECURSIVE OnePass(_, _, _)
OnePass(text, values, i) ==
    IF i > Len(text) THEN <<>>
    ELSE LET hits == {n \in 1..Len(values) :
                         PlaceholderEnd(text, values[n][1], i) # 0}
         IN IF hits = {} THEN <<text[i]>> \o OnePass(text, values, i + 1)
            ELSE LET n == CHOOSE n \in hits : TRUE
                 IN values[n][2]
                        \o OnePass(text, values,
                                   PlaceholderEnd(text, values[n][1], i))
\* the pairs of a dict in the opposite order
Reversed(values) == [n \in 1..Len(values) |-> values[Len(values) + 1 - n]]

\* C28: fill is one pass over the text: for identifier keys and values
\* without a backslash its result is that of the one pass, whatever the order
\* of the keys.
C28_FillOnePass ==
    (/\ Served(Last, "fill")
     /\ \A n \in 1..Len(Last.arg.values) :
           /\ IsIdentifier(Last.arg.values[n][1])
           /\ "\\" \notin ToSet(Last.arg.values[n][2]))
      => /\ Last.res = Ok(OnePass(Last.arg.text, Last.arg.values, 1))
         /\ Last.res = Outcome(fill(Last.arg.text, Reversed(Last.arg.values)))


\* the text and the variables that one create or update call stores together
CallPairs ==
    {<<c.arg.text, CreateVariables(c.arg.text, c.arg.variables)>> :
        c \in {e \in EditCalls : e.op = "create"}}
    \cup {<<c.arg.text.val,
            UpdateVariables(c.arg.text, c.arg.variables).val>> :
             c \in {e \in EditCalls : e.op = "update"}}

\* C29: while updates that each supply a text interleave, the text and the
\* variables of a stored template are those of one call.
C29_TextAndVariablesTogether ==
    \A i \in Stored(db) :
        <<db.templates[i].text, db.templates[i].variables>> \in CallPairs
\* one update has written its text and has not returned; another update of
\* the same template, with another text, is about to write
C29_Witness ==
    \E p, q \in Procs :
        /\ procs[p].op = "update" /\ procs[p].pc = "update_reget"
        /\ procs[q].op = "update" /\ procs[q].pc = "update_write"
        /\ procs[p].arg.id = procs[q].arg.id
        /\ procs[p].arg.text # procs[q].arg.text
        /\ procs[p].arg.id \in Stored(db)
        /\ db.templates[procs[p].arg.id].text = procs[p].arg.text.val


\* C30: ids are positive and never used again: no stored id is above the
\* largest id given so far, that mark never goes down, and a create that
\* succeeds stores and returns an id above it.
C30_IdsNeverReused ==
    [][/\ \A i \in Stored(db) : 0 < i /\ i <= db.seq_templates
       /\ db'.seq_templates >= db.seq_templates
       /\ \A i \in Stored(db') \ Stored(db) : i > db.seq_templates
       /\ (~Served(Last, "create") /\ Served(Last', "create") /\ Last'.res.ok)
            => /\ Last'.res.value.id > db.seq_templates
               /\ Last'.res.value.id \in Stored(db') \ Stored(db)]_vars
\* a create answered with id 2 after template 1 was deleted
C30_Witness ==
    /\ Served(Last, "create") /\ Last.res.ok
    /\ Last.res.value.id = 2
    /\ Stored(db) = {2}

=============================================================================
